---- MODULE Spec2Model ----
(***************************************************************************)
(* Expense tracker: statement import, rule matching (applyMappings), the   *)
(* IndexedDB stores of lib/db and the page handlers that write to them.    *)
(*                                                                         *)
(* Text is a sequence of one-character strings.  A field that JavaScript   *)
(* leaves undefined is the value Undefined; an absent conflicts array is   *)
(* the empty sequence (the code never stores an empty array).              *)
(***************************************************************************)
EXTENDS Integers, Sequences, FiniteSets, TLC

\* ------------------------------------------------------------------------
\* Bounds of the model
\* ------------------------------------------------------------------------
MaxLen == 2          \* longest beneficiary text drawn for the matcher
MaxMappings == 2     \* longest mapping list handed to the matcher
MaxMaps == 2         \* keys available in the mappings store
MaxRows == 3         \* most rows in a statement handed to the parser
MaxLogs == 1         \* import log entries kept between two clears
MaxSheetRows == 2    \* most data rows in the sheet of a migrated workbook

\* ------------------------------------------------------------------------
\* Values
\* ------------------------------------------------------------------------
Undefined == "undefined"
IncomeCat == "IN"
InternalCat == "INTERNAL"
UserCats == {"cat-1"}                 \* user categories of the store runs
CatIds == {IncomeCat, InternalCat} \cup UserCats
MatchCats == {"cat-1", "cat-2"}       \* category ids of the matcher runs

RIMI == <<"R", "I", "M", "I">>
LV11 == <<"L", "V", "1", "1">>

Range(s) == {s[i] : i \in 1..Len(s)}

\* ------------------------------------------------------------------------
\* String primitives used by the matcher and the parser
\* ------------------------------------------------------------------------
UpperChars == <<"A", "B", "I", "L", "M", "R", "V">>
LowerChars == <<"a", "b", "i", "l", "m", "r", "v">>

\* String.prototype.toLowerCase, one character
ToLowerChar(c) ==
    IF \E i \in 1..Len(UpperChars) : UpperChars[i] = c
    THEN LowerChars[CHOOSE i \in 1..Len(UpperChars) : UpperChars[i] = c]
    ELSE c

\* String.prototype.toLowerCase
ToLower(s) == [i \in 1..Len(s) |-> ToLowerChar(s[i])]

\* String.prototype.trim: white space removed at both ends only
Trim(s) ==
    LET idx == {i \in 1..Len(s) : s[i] # " "}
    IN  IF idx = {} THEN <<>>
        ELSE LET lo == CHOOSE i \in idx : \A j \in idx : i <= j
                 hi == CHOOSE i \in idx : \A j \in idx : i >= j
             IN  SubSeq(s, lo, hi)

\* String.prototype.includes: p occurs in t as a contiguous substring
Includes(t, p) ==
    \E i \in 0..(Len(t) - Len(p)) : SubSeq(t, i + 1, i + Len(p)) = p

\* ------------------------------------------------------------------------
\* lib/matcher: applyMappings
\* ------------------------------------------------------------------------
\* mutant: empty identifiers are not filtered out
NormalizedIgnored_noFilter(ignoredAccounts) ==
    [i \in 1..Len(ignoredAccounts) |-> Trim(ToLower(ignoredAccounts[i]))]

\* ignoredAccounts.map(lower, trim).filter(non-empty)
NormalizedIgnored(ignoredAccounts) ==
    SelectSeq([i \in 1..Len(ignoredAccounts) |-> Trim(ToLower(ignoredAccounts[i]))],
              LAMBDA acc : Len(acc) > 0)

\* mutant: the identifiers are compared as typed, without lower-casing
IsInternal_caseSensitive(transaction, ignoredAccounts) ==
    LET relevantText == ToLower(transaction.beneficiary \o <<" ">> \o transaction.purpose)
        normalizedIgnored ==
            SelectSeq([i \in 1..Len(ignoredAccounts) |-> Trim(ignoredAccounts[i])],
                      LAMBDA acc : Len(acc) > 0)
    IN  \E i \in 1..Len(normalizedIgnored) : Includes(relevantText, normalizedIgnored[i])

\* the internal-transfer test
IsInternal(transaction, ignoredAccounts) ==
    LET relevantText == ToLower(transaction.beneficiary \o <<" ">> \o transaction.purpose)
        normalizedIgnored == NormalizedIgnored(ignoredAccounts)
    IN  \E i \in 1..Len(normalizedIgnored) : Includes(relevantText, normalizedIgnored[i])

\* one mapping against one transaction
MappingMatches(transaction, mapping) ==
    LET pattern == ToLower(mapping.pattern)
        beneficiary == ToLower(transaction.beneficiary)
        purpose == ToLower(transaction.purpose)
    IN  Includes(beneficiary, pattern) \/ Includes(purpose, pattern)

RECURSIVE MatchedUpTo(_, _, _)
\* the Set `matches` after the first k mappings, in insertion order
MatchedUpTo(transaction, mappings, k) ==
    IF k = 0 THEN <<>>
    ELSE LET prev == MatchedUpTo(transaction, mappings, k - 1)
             id == mappings[k].categoryId
         IN  IF MappingMatches(transaction, mappings[k]) /\ id \notin Range(prev)
             THEN Append(prev, id)
             ELSE prev

RECURSIVE MatchedAllUpTo(_, _, _)
\* mutant helper: an array that keeps every matched id, duplicates included
MatchedAllUpTo(transaction, mappings, k) ==
    IF k = 0 THEN <<>>
    ELSE LET prev == MatchedAllUpTo(transaction, mappings, k - 1)
         IN  IF MappingMatches(transaction, mappings[k])
             THEN Append(prev, mappings[k].categoryId)
             ELSE prev

\* mutant: matches collected in an array instead of a Set
MatchedCategories_noDedup(transaction, mappings) ==
    MatchedAllUpTo(transaction, mappings, Len(mappings))

\* Array.from(matches) after the loop over the mappings
MatchedCategories(transaction, mappings) ==
    MatchedUpTo(transaction, mappings, Len(mappings))

NoResult == [match |-> Undefined, conflicts |-> <<>>]

\* mutant: the first matching rule wins
applyMappings_firstWins(transaction, mappings, ignoredAccounts) ==
    LET matches == MatchedCategories(transaction, mappings)
    IN  IF IsInternal(transaction, ignoredAccounts)
        THEN [match |-> InternalCat, conflicts |-> <<>>]
        ELSE IF Len(matches) >= 1
        THEN [match |-> matches[1], conflicts |-> <<>>]
        ELSE NoResult

applyMappings(transaction, mappings, ignoredAccounts) ==
    LET matches == MatchedCategories(transaction, mappings)
    IN  IF IsInternal(transaction, ignoredAccounts)
        THEN [match |-> InternalCat, conflicts |-> <<>>]
        ELSE IF Len(matches) = 1
        THEN [match |-> matches[1], conflicts |-> <<>>]
        ELSE IF Len(matches) > 1
        THEN [match |-> Undefined, conflicts |-> matches]
        ELSE NoResult

\* mutant: the ignored identifiers are normalized in the caller's array
applyMappingsArgs_normalizesInPlace(transaction, mappings, ignoredAccounts) ==
    [transaction |-> transaction, mappings |-> mappings,
     ignoredAccounts |-> NormalizedIgnored(ignoredAccounts)]

\* the three arguments as the call leaves them: no property of them is
\* assigned, map and filter build new arrays, toLowerCase and trim new strings
applyMappingsArgs(transaction, mappings, ignoredAccounts) ==
    [transaction |-> transaction, mappings |-> mappings,
     ignoredAccounts |-> ignoredAccounts]

\* ------------------------------------------------------------------------
\* lib/parser: the record parseBankCSV builds from one well-formed row
\* ------------------------------------------------------------------------
ParseRow(row) ==
    [id |-> row.txNo,
     type |-> row.type,
     beneficiary |-> IF Len(row.beneAccount) > 0
                     THEN row.payer \o <<" ", "(">> \o row.beneAccount \o <<")">>
                     ELSE row.payer,
     purpose |-> row.purpose,
     categoryId |-> Undefined,
     conflicts |-> <<>>]

\* sample statement rows
Row1 == [txNo |-> 1, type |-> "D", payer |-> <<"a", "B">>, beneAccount |-> <<>>,
         purpose |-> <<"x">>]
Row2 == [txNo |-> 2, type |-> "C", payer |-> <<>>, beneAccount |-> LV11,
         purpose |-> <<"x", " ">> \o RIMI]
SampleRows == {Row1, Row2}

\* ------------------------------------------------------------------------
\* lib/parser: the date of a row (date-fns parse, isValid, format)
\* ------------------------------------------------------------------------
DigitChars == <<"0", "1", "2", "3", "4", "5", "6", "7", "8", "9">>
IsDigits(s) == \A i \in 1..Len(s) : \E k \in 1..10 : DigitChars[k] = s[i]
DigitVal(c) == (CHOOSE k \in 1..10 : DigitChars[k] = c) - 1

RECURSIVE NatOf(_)
\* the number a run of digits denotes
NatOf(s) ==
    IF s = <<>> THEN 0
    ELSE 10 * NatOf(SubSeq(s, 1, Len(s) - 1)) + DigitVal(s[Len(s)])

IsLeapYear(y) == (y % 4 = 0 /\ y % 100 # 0) \/ y % 400 = 0
DaysInMonth(m, y) ==
    IF m = 2 THEN (IF IsLeapYear(y) THEN 29 ELSE 28)
    ELSE IF m \in {4, 6, 9, 11} THEN 30 ELSE 31

InvalidDate == [valid |-> FALSE]

\* mutant: the day is not checked against the length of the month
DateFnsParse_anyDay(dateStr) ==
    IF \E i, j \in 1..Len(dateStr) :
          /\ i < j /\ dateStr[i] = "." /\ dateStr[j] = "."
          /\ i - 1 \in 1..2 /\ j - i - 1 \in 1..2 /\ Len(dateStr) - j \in 1..4
          /\ IsDigits(SubSeq(dateStr, 1, i - 1))
          /\ IsDigits(SubSeq(dateStr, i + 1, j - 1))
          /\ IsDigits(SubSeq(dateStr, j + 1, Len(dateStr)))
    THEN LET i == CHOOSE i \in 1..Len(dateStr) :
                    dateStr[i] = "." /\ \A k \in 1..(i - 1) : dateStr[k] # "."
             j == CHOOSE j \in (i + 1)..Len(dateStr) : dateStr[j] = "."
         IN  [valid |-> TRUE, day |-> NatOf(SubSeq(dateStr, 1, i - 1)),
              month |-> NatOf(SubSeq(dateStr, i + 1, j - 1)),
              year |-> NatOf(SubSeq(dateStr, j + 1, Len(dateStr)))]
    ELSE InvalidDate

\* parse(dateStr, 'dd.MM.yyyy', new Date()) and isValid: one or two digits, a
\* dot, one or two digits, a dot, one to four digits, nothing else, and the
\* three numbers name a day of the calendar
DateFnsParse(dateStr) ==
    IF \E i, j \in 1..Len(dateStr) :
          /\ i < j /\ dateStr[i] = "." /\ dateStr[j] = "."
          /\ i - 1 \in 1..2 /\ j - i - 1 \in 1..2 /\ Len(dateStr) - j \in 1..4
          /\ IsDigits(SubSeq(dateStr, 1, i - 1))
          /\ IsDigits(SubSeq(dateStr, i + 1, j - 1))
          /\ IsDigits(SubSeq(dateStr, j + 1, Len(dateStr)))
    THEN LET i == CHOOSE i \in 1..Len(dateStr) :
                    dateStr[i] = "." /\ \A k \in 1..(i - 1) : dateStr[k] # "."
             j == CHOOSE j \in (i + 1)..Len(dateStr) : dateStr[j] = "."
             d == NatOf(SubSeq(dateStr, 1, i - 1))
             m == NatOf(SubSeq(dateStr, i + 1, j - 1))
             y == NatOf(SubSeq(dateStr, j + 1, Len(dateStr)))
         IN  IF y >= 1 /\ m \in 1..12 /\ d \in 1..DaysInMonth(m, y)
             THEN [valid |-> TRUE, day |-> d, month |-> m, year |-> y]
             ELSE InvalidDate
    ELSE InvalidDate

\* a number as decimal digits, padded with zeros to the given width
Padded(n, width) ==
    [k \in 1..width |-> DigitChars[((n \div (10 ^ (width - k))) % 10) + 1]]

\* format(parsedDate, 'yyyy-MM-dd')
FormatIso(date) ==
    Padded(date.year, 4) \o <<"-">> \o Padded(date.month, 2) \o <<"-">>
        \o Padded(date.day, 2)

\* id of a row without Transaction No.: gen-<index>-<Date.now()>
GenBase == 100
GenId(index) == GenBase + index

\* mutant: the required-fields check tests Value date only
ParseOne_amountNotRequired(row, index) ==
    IF row.valueDate = <<>> THEN [kind |-> "skip"]
    ELSE IF ~DateFnsParse(row.valueDate).valid
         THEN [kind |-> "error", entry |-> [row |-> row, error |-> "Invalid date format"]]
         ELSE [kind |-> "data",
               tx |-> [ParseRow(row) EXCEPT
                          !.id = IF row.txNo = 0 THEN GenId(index) ELSE row.txNo]
                      @@ [date |-> FormatIso(DateFnsParse(row.valueDate))]]

\* what the forEach callback does with one row: nothing, an error, a push
ParseOne(row, index) ==
    IF row.valueDate = <<>> \/ row.amount = <<>> THEN [kind |-> "skip"]
    ELSE LET parsedDate == DateFnsParse(row.valueDate)
             tx == ParseRow(row)
         IN  IF ~parsedDate.valid
             THEN [kind |-> "error", entry |-> [row |-> row, error |-> "Invalid date format"]]
             ELSE [kind |-> "data",
                   tx |-> [id |-> IF row.txNo = 0 THEN GenId(index) ELSE row.txNo,
                           date |-> FormatIso(parsedDate),
                           type |-> tx.type,
                           beneficiary |-> tx.beneficiary,
                           purpose |-> tx.purpose,
                           categoryId |-> tx.categoryId,
                           conflicts |-> tx.conflicts]]

\* a row of the statement with its Value date and Amount columns
CsvRow(base, txNo, valueDate, amount) ==
    [valueDate |-> valueDate, amount |-> amount, txNo |-> txNo, type |-> base.type,
     payer |-> base.payer, beneAccount |-> base.beneAccount, purpose |-> base.purpose]

Date_01_02_2024 == <<"0", "1", ".", "0", "2", ".", "2", "0", "2", "4">>
Date_29_02_2024 == <<"2", "9", ".", "0", "2", ".", "2", "0", "2", "4">>
Date_31_02_2024 == <<"3", "1", ".", "0", "2", ".", "2", "0", "2", "4">>
Date_2024_02_01 == <<"2", "0", "2", "4", "/", "0", "2", "/", "0", "1">>
Date_1_12_99 == <<"1", ".", "1", "2", ".", "9", "9">>
Amount_1_09 == <<"1", ".", "0", "9">>

\* rows of the statement: well-formed, with a date in another shape, with a
\* day the month does not have, without date, without amount, without
\* Transaction No.
CsvRowPool ==
    {CsvRow(Row1, 1, Date_01_02_2024, Amount_1_09),
     CsvRow(Row2, 2, Date_29_02_2024, Amount_1_09),
     CsvRow(Row1, 3, Date_2024_02_01, Amount_1_09),
     CsvRow(Row2, 4, Date_31_02_2024, Amount_1_09),
     CsvRow(Row1, 5, <<>>, Amount_1_09),
     CsvRow(Row2, 6, Date_01_02_2024, <<>>),
     CsvRow(Row1, 0, Date_1_12_99, Amount_1_09)}

\* ------------------------------------------------------------------------
\* State
\* ------------------------------------------------------------------------
VARIABLES
    mtx,        \* matcher run: the transaction argument
    mmaps,      \* matcher run: the mappings argument
    mign,       \* matcher run: the ignoredAccounts argument
    mres,       \* matcher run: the value returned for (mtx, mmaps, mign)
    mfirst,     \* matcher run: the value returned for the first ordering of mmaps
    categories,       \* object store 'categories': the ids of its records
    mappings,         \* object store 'mappings': records keyed by id
    transactions,     \* object store 'transactions': records keyed by id
    ignoredAccounts,  \* settings key 'ignoredAccounts'
    import_logs,      \* object store 'import_logs': number of records
    lastDeleted,      \* the id given to deleteCategory when it was the last operation
    lastOp,           \* the last completed handler and what its alert() reported
    result,           \* Import page: the preview waiting for handleSave
    reapply,          \* handleReapplyRules in flight: position and local values
    delTxn,           \* deleteCategory in flight: its IndexedDB transaction
    csv,              \* parser run: results.data, the rows Papa.parse hands over
    parse             \* parser run: position, transactions, errors, promise state

matchVars == <<mtx, mmaps, mign, mres, mfirst>>
storeVars == <<categories, mappings, transactions, ignoredAccounts, import_logs>>
flightVars == <<result, reapply, delTxn>>
parseVars == <<csv, parse>>
vars == <<matchVars, storeVars, lastDeleted, lastOp, flightVars, parseVars>>

\* no value returned yet
Pending == [match |-> "pending", conflicts |-> <<>>]

\* ------------------------------------------------------------------------
\* Inputs of the matcher runs
\* ------------------------------------------------------------------------
MatchAlphabet == {"a", "B", " "}
Texts(n) == UNION {[1..k -> MatchAlphabet] : k \in 0..n}
MatchPurposes == {<<>>, <<"a">>, <<"B">>}
MatchPatterns == {<<"A">>, <<"b">>, RIMI}
MatchTxs ==
    {[id |-> 0, type |-> "D", beneficiary |-> b, purpose |-> p,
      categoryId |-> Undefined, conflicts |-> <<>>] :
        b \in Texts(MaxLen), p \in MatchPurposes}
    \cup {ParseRow(r) : r \in SampleRows}
MatchMappings == [id : {0}, pattern : MatchPatterns, categoryId : MatchCats]
MatchMappingLists == UNION {[1..k -> MatchMappings] : k \in 0..MaxMappings}
IgnoredPool == {<<>>, <<" ">>, <<" ", "A">>, <<"a", " ", "b">>, LV11}
MatchIgnoredLists == {<<>>} \cup {<<acc>> : acc \in IgnoredPool}

\* no handler has reported anything
NoOp == [op |-> "none"]

\* parseBankCSV has not been called
ParseIdle == [state |-> "idle", index |-> 0, transactions |-> <<>>, errors |-> <<>>]

\* nothing in flight
NoPreview == [pc |-> "idle"]
ReapplyIdle == [pc |-> "idle"]
NoTxn == [pc |-> "idle"]

\* the stores after the schema upgrade and ensureSystemCategories
StoreInit ==
    /\ categories = {IncomeCat, InternalCat}
    /\ mappings = {}
    /\ transactions = {}
    /\ ignoredAccounts = <<>>
    /\ import_logs = 0
    /\ lastDeleted = Undefined
    /\ lastOp = NoOp
    /\ result = NoPreview
    /\ reapply = ReapplyIdle
    /\ delTxn = NoTxn

\* no parser run
ParseNotRun ==
    /\ csv = <<>>
    /\ parse = ParseIdle

MatchInit ==
    /\ StoreInit
    /\ ParseNotRun
    /\ mtx \in MatchTxs
    /\ mmaps \in MatchMappingLists
    /\ mign \in MatchIgnoredLists
    /\ mres = Pending
    /\ mfirst = Pending

\* a call applyMappings(tx, mappings, ignored)
MatchApply ==
    /\ mres = Pending
    /\ mres' = applyMappings(mtx, mmaps, mign)
    /\ mfirst' = mres'
    /\ LET after == applyMappingsArgs(mtx, mmaps, mign)
       IN  /\ mtx' = after.transaction
           /\ mmaps' = after.mappings
           /\ mign' = after.ignoredAccounts
    /\ UNCHANGED <<storeVars, lastDeleted, lastOp, flightVars, parseVars>>

\* a call with the same mappings in another order (two neighbours exchanged)
MatchPermuted ==
    /\ mres # Pending
    /\ \E i \in 1..(Len(mmaps) - 1) :
          /\ mmaps' = [mmaps EXCEPT ![i] = mmaps[i + 1], ![i + 1] = mmaps[i]]
          /\ mres' = applyMappings(mtx, mmaps', mign)
    /\ UNCHANGED <<mtx, mign, mfirst, storeVars, lastDeleted, lastOp, flightVars, parseVars>>

MatchNext == MatchApply \/ MatchPermuted

SpecMatch == MatchInit /\ [][MatchNext]_vars

\* ------------------------------------------------------------------------
\* Claims about applyMappings
\* ------------------------------------------------------------------------
SameOutcome(r1, r2) ==
    /\ r1.match = r2.match
    /\ Range(r1.conflicts) = Range(r2.conflicts)

\* C7: whatever the order of the mapping list, applyMappings returns the same
\* match id, or the same conflict set as a set, or the same empty result.
C7_OrderIndependent ==
    (mres # Pending) => SameOutcome(mres, mfirst)

\* C7 witness: a reordered list of two rules for different categories, both
\* matching, has been evaluated and yields a conflict.
C7_Witness ==
    /\ mres # Pending
    /\ Len(mmaps) >= 2
    /\ mmaps[1].categoryId # mmaps[2].categoryId
    /\ Len(mres.conflicts) >= 2
    /\ mres.conflicts # mfirst.conflicts

\* the condition under which the internal-transfer rule applies
InternalCase ==
    \E i \in 1..Len(mign) :
        LET acc == Trim(ToLower(mign[i]))
        IN  /\ acc # <<>>
            /\ Includes(ToLower(mtx.beneficiary \o <<" ">> \o mtx.purpose), acc)

PriorityScenario ==
    /\ mtx = ParseRow(Row2)
    /\ mign = <<LV11>>
    /\ \E i \in 1..Len(mmaps) : mmaps[i].pattern = RIMI /\ mmaps[i].categoryId = "cat-1"

\* C8: when the lower-cased beneficiary/purpose text contains a non-blank
\* ignored identifier (lower-cased, trimmed) the result is match = INTERNAL with
\* no conflicts, whatever mappings match; with identifier LV11 and rule
\* RIMI -> cat-1 the row with beneficiary account LV11 resolves to INTERNAL.
C8_InternalPriority ==
    (mres # Pending) =>
        /\ InternalCase => mres = [match |-> InternalCat, conflicts |-> <<>>]
        /\ PriorityScenario => (mres.match = InternalCat /\ mres.match # "cat-1")

\* C8 witness: the LV11 / RIMI scenario has been evaluated.
C8_Witness ==
    /\ mres # Pending
    /\ PriorityScenario
    /\ InternalCase
    /\ MappingMatches(mtx, [pattern |-> RIMI])

\* the set D of distinct category ids of the matching mappings
MatchedSetD ==
    {mmaps[i].categoryId : i \in {j \in 1..Len(mmaps) :
        \/ Includes(ToLower(mtx.beneficiary), ToLower(mmaps[j].pattern))
        \/ Includes(ToLower(mtx.purpose), ToLower(mmaps[j].pattern))}}

Put(store, rec) == {r \in store : r.id # rec.id} \cup {rec}

RECURSIVE SortedById(_)
\* IDBObjectStore.getAll: the records in key order
SortedById(store) ==
    IF store = {} THEN <<>>
    ELSE LET m == CHOOSE r \in store : \A q \in store : r.id <= q.id
         IN  <<m>> \o SortedById(store \ {m})

getMappings(store) == SortedById(store)
getAllTransactions(store) == SortedById(store)

\* mutant: the store is cleared before the array is written
saveTransactions_replacesStore(store, txs) == Range(txs)

RECURSIVE saveTransactions(_, _)
\* one put per element of the array, in one readwrite transaction
saveTransactions(store, txs) ==
    IF txs = <<>> THEN store
    ELSE saveTransactions(Put(store, Head(txs)), Tail(txs))

\* deleteCategory, step 1: the category record
DeleteCategoryRecord(cats, id) == cats \ {id}

\* mutant: the cursor loop over index 'by-category' is missing
UnsetCategoryOfTransactions_skipped(txs, id) == txs

\* mutant: a credit whose category is deleted falls back to income
UnsetCategoryOfTransactions_creditFallback(txs, id) ==
    {IF t.categoryId = id
     THEN [t EXCEPT !.categoryId = IF t.type = "C" THEN IncomeCat ELSE Undefined]
     ELSE t : t \in txs}

\* deleteCategory, step 2: every transaction under key id in index 'by-category'
UnsetCategoryOfTransactions(txs, id) ==
    {IF t.categoryId = id THEN [t EXCEPT !.categoryId = Undefined] ELSE t : t \in txs}

\* mutant: the scan of the mappings store is missing
DeleteMappingsOfCategory_skipped(maps, id) == maps

\* deleteCategory, step 3: every mapping whose categoryId is id
DeleteMappingsOfCategory(maps, id) == {m \in maps : m.categoryId # id}

\* ------------------------------------------------------------------------
\* pages/Import: handleFileSelect, handleSave
\* ------------------------------------------------------------------------
\* mutant: the Credit fallback of the import is missing
CategorizeOnImport_noFallback(tx, maps, ignored) ==
    LET r == applyMappings(tx, maps, ignored)
    IN  IF tx.categoryId # Undefined THEN tx
        ELSE IF r.match # Undefined THEN [tx EXCEPT !.categoryId = r.match]
        ELSE IF r.conflicts # <<>> THEN [tx EXCEPT !.conflicts = r.conflicts]
        ELSE tx

\* mutant: of several matching categories the import takes the first
CategorizeOnImport_firstConflictWins(tx, maps, ignored) ==
    LET r == applyMappings(tx, maps, ignored)
    IN  IF tx.categoryId # Undefined THEN tx
        ELSE IF r.match # Undefined THEN [tx EXCEPT !.categoryId = r.match]
        ELSE IF r.conflicts # <<>> THEN [tx EXCEPT !.categoryId = r.conflicts[1]]
        ELSE IF tx.type = "C" THEN [tx EXCEPT !.categoryId = IncomeCat]
        ELSE tx

\* the body of parseResult.data.forEach
CategorizeOnImport(tx, maps, ignored) ==
    LET r == applyMappings(tx, maps, ignored)
    IN  IF tx.categoryId # Undefined THEN tx
        ELSE IF r.match # Undefined THEN [tx EXCEPT !.categoryId = r.match]
        ELSE IF r.conflicts # <<>> THEN [tx EXCEPT !.conflicts = r.conflicts]
        ELSE IF tx.type = "C" THEN [tx EXCEPT !.categoryId = IncomeCat]
        ELSE tx

\* the preview handleFileSelect computes for a file of well-formed rows
ImportPreview(file, maps, ignored) ==
    [i \in 1..Len(file) |-> CategorizeOnImport(ParseRow(file[i]), maps, ignored)]

\* ------------------------------------------------------------------------
\* pages/Categories: handleReapplyRules
\* ------------------------------------------------------------------------
\* mutant: the Credit fallback keeps the stored conflicts
ReapplyOne_creditKeepsConflicts(tx, maps, ignored) ==
    LET r == applyMappings(tx, maps, ignored)
    IN  IF r.match # Undefined THEN
            IF tx.categoryId # r.match \/ Len(tx.conflicts) > 0
            THEN [tx |-> [tx EXCEPT !.categoryId = r.match, !.conflicts = <<>>],
                  changed |-> TRUE]
            ELSE [tx |-> tx, changed |-> FALSE]
        ELSE IF r.conflicts # <<>> THEN
            IF tx.categoryId # Undefined \/ tx.conflicts # r.conflicts
            THEN [tx |-> [tx EXCEPT !.categoryId = Undefined, !.conflicts = r.conflicts],
                  changed |-> TRUE]
            ELSE [tx |-> tx, changed |-> FALSE]
        ELSE IF tx.type = "C" THEN
            IF tx.categoryId # IncomeCat
            THEN [tx |-> [tx EXCEPT !.categoryId = IncomeCat], changed |-> TRUE]
            ELSE [tx |-> tx, changed |-> FALSE]
        ELSE
            IF tx.categoryId # Undefined \/ Len(tx.conflicts) > 0
            THEN [tx |-> [tx EXCEPT !.categoryId = Undefined, !.conflicts = <<>>],
                  changed |-> TRUE]
            ELSE [tx |-> tx, changed |-> FALSE]

\* the body of txs.forEach: the transaction as left by the pass, and `changed`
ReapplyOne(tx, maps, ignored) ==
    LET r == applyMappings(tx, maps, ignored)
    IN  IF r.match # Undefined THEN
            IF tx.categoryId # r.match \/ Len(tx.conflicts) > 0
            THEN [tx |-> [tx EXCEPT !.categoryId = r.match, !.conflicts = <<>>],
                  changed |-> TRUE]
            ELSE [tx |-> tx, changed |-> FALSE]
        ELSE IF r.conflicts # <<>> THEN
            IF tx.categoryId # Undefined \/ tx.conflicts # r.conflicts
            THEN [tx |-> [tx EXCEPT !.categoryId = Undefined, !.conflicts = r.conflicts],
                  changed |-> TRUE]
            ELSE [tx |-> tx, changed |-> FALSE]
        ELSE IF tx.type = "C" THEN
            IF tx.categoryId # IncomeCat
            THEN [tx |-> [tx EXCEPT !.categoryId = IncomeCat, !.conflicts = <<>>],
                  changed |-> TRUE]
            ELSE [tx |-> tx, changed |-> FALSE]
        ELSE
            IF tx.categoryId # Undefined \/ Len(tx.conflicts) > 0
            THEN [tx |-> [tx EXCEPT !.categoryId = Undefined, !.conflicts = <<>>],
                  changed |-> TRUE]
            ELSE [tx |-> tx, changed |-> FALSE]

\* mutant: the pass leaves a transaction that already has a category alone
ReapplyPass_keepsAssigned(txs, maps, ignored) ==
    LET one(t) == IF t.categoryId # Undefined THEN [tx |-> t, changed |-> FALSE]
                  ELSE ReapplyOne(t, maps, ignored)
    IN  [txs |-> [i \in 1..Len(txs) |-> one(txs[i]).tx],
         updatedCount |-> Cardinality({i \in 1..Len(txs) : one(txs[i]).changed})]

\* mutant: every transaction of the pass is counted as updated
ReapplyPass_countsAll(txs, maps, ignored) ==
    [txs |-> [i \in 1..Len(txs) |-> ReapplyOne(txs[i], maps, ignored).tx],
     updatedCount |-> Len(txs)]

\* the array txs after the forEach, and updatedCount
ReapplyPass(txs, maps, ignored) ==
    [txs |-> [i \in 1..Len(txs) |-> ReapplyOne(txs[i], maps, ignored).tx],
     updatedCount |-> Cardinality({i \in 1..Len(txs) :
                                    ReapplyOne(txs[i], maps, ignored).changed})]

\* the three shapes of a result: a match, two or more conflicts, nothing
IsResult(r) ==
    \/ r.match # Undefined /\ r.conflicts = <<>>
    \/ r.match = Undefined /\ Len(r.conflicts) >= 2
    \/ r = NoResult

IsBlank(acc) == \A k \in 1..Len(acc) : acc[k] = " "

\* C30: with an ignored list made only of empty or white-space identifiers,
\* applyMappings returns what it returns with an empty ignored list, for
\* every transaction and every mapping list.
C30_BlankIgnoredHasNoEffect ==
    (mres # Pending /\ \A i \in 1..Len(mign) : IsBlank(mign[i]))
    => mres = applyMappings(mtx, mmaps, <<>>)

\* C30 witness: calls with an empty identifier and with a white-space one in
\* the ignored list have returned a match.
C30_Witness ==
    /\ mres # Pending /\ mres.match # Undefined
    /\ mign # <<>> /\ \A i \in 1..Len(mign) : IsBlank(mign[i])

\* ------------------------------------------------------------------------
\* Inputs of the store runs
\* ------------------------------------------------------------------------
\* the texts a rule is made of
StorePatterns == {RIMI}
\* the categories rules are written for
RuleCats == {IncomeCat} \cup UserCats
MapKeys == 1..MaxMaps
Files == {<<Row1>>, <<Row2>>, <<Row1, Row2>>}
AccountInputs == {<<" ">> \o LV11}
BlankRule == [pattern |-> <<>>, categoryId |-> ""]
RulePool == [pattern : StorePatterns, categoryId : RuleCats] \cup {BlankRule}
\* a file of one rule, of the same rule twice, or of a blank rule and a rule
RulePayloads ==
    {<<r>> : r \in RulePool} \cup {<<r, r>> : r \in RulePool}
        \cup {<<BlankRule, r>> : r \in RulePool}

MatchIdle ==
    /\ mtx = Undefined
    /\ mmaps = <<>>
    /\ mign = <<>>
    /\ mres = Pending
    /\ mfirst = Pending

Init == StoreInit /\ MatchIdle /\ ParseNotRun

TxById(id) == CHOOSE t \in transactions : t.id = id

\* ------------------------------------------------------------------------
\* Operations, each run to completion
\* ------------------------------------------------------------------------
\* App mount: ensureSystemCategories
EnsureSystemCategories ==
    /\ categories' = categories \cup {IncomeCat, InternalCat}
    /\ lastDeleted' = Undefined
    /\ lastOp' = NoOp
    /\ UNCHANGED <<mappings, transactions, ignoredAccounts, import_logs, matchVars, flightVars, parseVars>>

\* Categories page: handleAddCategory (the id is not in use)
HandleAddCategory(id) ==
    /\ id \notin categories
    /\ categories' = categories \cup {id}
    /\ lastDeleted' = Undefined
    /\ lastOp' = NoOp
    /\ UNCHANGED <<mappings, transactions, ignoredAccounts, import_logs, matchVars, flightVars, parseVars>>

\* Categories page: handleDeleteCategory -> deleteCategory, one IndexedDB
\* transaction over the three stores
HandleDeleteCategory(id) ==
    /\ id \in categories
    /\ categories' = DeleteCategoryRecord(categories, id)
    /\ transactions' = UnsetCategoryOfTransactions(transactions, id)
    /\ mappings' = DeleteMappingsOfCategory(mappings, id)
    /\ lastDeleted' = id
    /\ lastOp' = NoOp
    /\ UNCHANGED <<ignoredAccounts, import_logs, matchVars, flightVars, parseVars>>

\* Categories page: saveMapping, from the form and from a suggestion; the
\* category comes from the list of stored categories
SaveMapping(key, pattern, categoryId) ==
    /\ pattern # <<>> /\ categoryId # ""
    /\ categoryId \in categories
    /\ key \notin {m.id : m \in mappings}
    /\ mappings' = Put(mappings, [id |-> key, pattern |-> pattern, categoryId |-> categoryId])
    /\ lastDeleted' = Undefined
    /\ lastOp' = NoOp
    /\ UNCHANGED <<categories, transactions, ignoredAccounts, import_logs, matchVars, flightVars, parseVars>>

\* Categories page: handleDeleteMapping -> deleteMapping
HandleDeleteMapping(key) ==
    /\ key \in {m.id : m \in mappings}
    /\ mappings' = {m \in mappings : m.id # key}
    /\ lastDeleted' = Undefined
    /\ lastOp' = NoOp
    /\ UNCHANGED <<categories, transactions, ignoredAccounts, import_logs, matchVars, flightVars, parseVars>>

\* mutant: a rule without pattern or categoryId is not skipped
RuleIsAdded_blankAccepted(rule, currentPatterns, cats) ==
    rule.pattern \notin currentPatterns

\* handleImportRules: the test one imported rule passes before addMapping
RuleIsAdded(rule, currentPatterns, cats) ==
    /\ rule.pattern # <<>> /\ rule.categoryId # ""
    /\ rule.pattern \notin currentPatterns

RECURSIVE ImportRulesLoop(_, _, _, _, _)
\* handleImportRules: the loop over the imported array; keys are the fresh ids
ImportRulesLoop(store, currentPatterns, cats, rules, keys) ==
    IF rules = <<>> THEN store
    ELSE IF RuleIsAdded(Head(rules), currentPatterns, cats)
    THEN ImportRulesLoop(Put(store, [id |-> Head(keys),
                                     pattern |-> Head(rules).pattern,
                                     categoryId |-> Head(rules).categoryId]),
                         currentPatterns, cats, Tail(rules), Tail(keys))
    ELSE ImportRulesLoop(store, currentPatterns, cats, Tail(rules), keys)

\* Categories page: handleImportRules with a JSON array
HandleImportRules(payload) ==
    LET currentPatterns == {m.pattern : m \in mappings}
        n == Cardinality({i \in 1..Len(payload) :
                            RuleIsAdded(payload[i], currentPatterns, categories)})
        free == MapKeys \ {m.id : m \in mappings}
    IN  /\ \E keys \in [1..n -> free] :
              /\ \A i, j \in 1..n : i # j => keys[i] # keys[j]
              /\ mappings' = ImportRulesLoop(mappings, currentPatterns, categories,
                                             payload, keys)
        /\ lastDeleted' = Undefined
        /\ lastOp' = [op |-> "importRules", added |-> n]
        /\ UNCHANGED <<categories, transactions, ignoredAccounts, import_logs, matchVars, flightVars, parseVars>>

\* what a chosen file can hold besides an array of rules: text that is no
\* JSON, and a JSON value that is no array
NotJson == [json |-> FALSE, array |-> FALSE]
JsonObject == [json |-> TRUE, array |-> FALSE]
BadContents == {NotJson, JsonObject}

\* mutant: the Array.isArray test is missing
ImportThrows_parseOnly(content) == ~content.json

\* handleImportRules: JSON.parse throws, or Array.isArray is false and the
\* handler throws
ImportThrows(content) == ~content.json \/ ~content.array

\* Categories page: handleImportRules with text that is no JSON array: the
\* catch block alerts 'Failed to import. Invalid JSON.'; a value that got past
\* the test would hold no rule with pattern and categoryId
HandleImportRulesInvalid(content) ==
    /\ lastDeleted' = Undefined
    /\ lastOp' = IF ImportThrows(content)
                  THEN [op |-> "importRulesFailed"]
                  ELSE [op |-> "importRules", added |-> 0]
    /\ UNCHANGED <<storeVars, matchVars, flightVars, parseVars>>

\* Import page: handleFileSelect, then handleSave of the preview
Import(file) ==
    /\ import_logs < MaxLogs
    /\ transactions' = saveTransactions(transactions,
                          ImportPreview(file, getMappings(mappings), ignoredAccounts))
    /\ import_logs' = import_logs + 1
    /\ lastDeleted' = Undefined
    /\ lastOp' = [op |-> "import", ids |-> {file[i].txNo : i \in 1..Len(file)}]
    /\ UNCHANGED <<categories, mappings, ignoredAccounts, matchVars, flightVars, parseVars>>

\* mutant: manual resolution leaves the conflicts in place
Resolved_keepsConflicts(tx, catId) == [tx EXCEPT !.categoryId = catId]

\* the record manual resolution writes back
Resolved(tx, catId) == [tx EXCEPT !.categoryId = catId, !.conflicts = <<>>]

\* Uncategorized page: handleCategorize on one of the listed transactions
HandleCategorize(txId, catId) ==
    /\ \E t \in transactions : t.id = txId /\ t.categoryId = Undefined
    /\ catId \in categories
    /\ transactions' = saveTransactions(transactions, <<Resolved(TxById(txId), catId)>>)
    /\ lastDeleted' = Undefined
    /\ lastOp' = [op |-> "categorize", txId |-> txId, catId |-> catId,
                  rest |-> {t \in transactions : t.id # txId}]
    /\ UNCHANGED <<categories, mappings, ignoredAccounts, import_logs, matchVars, flightVars, parseVars>>

\* Transactions page: updateCategory
UpdateCategory(txId, newCategoryId) ==
    /\ \E t \in transactions : t.id = txId
    /\ newCategoryId \in categories
    /\ IF TxById(txId).categoryId # newCategoryId
       THEN transactions' = saveTransactions(transactions,
                                <<Resolved(TxById(txId), newCategoryId)>>)
       ELSE UNCHANGED transactions
    /\ lastDeleted' = Undefined
    /\ lastOp' = [op |-> "updateCategory", txId |-> txId, catId |-> newCategoryId,
                  rest |-> {t \in transactions : t.id # txId}]
    /\ UNCHANGED <<categories, mappings, ignoredAccounts, import_logs, matchVars, flightVars, parseVars>>

\* no reapply ran directly before
NoCount == -1

\* Categories page: handleReapplyRules; lastOp keeps the count the alert
\* reports, and the count of the run directly before, if the last operation
\* was a reapply too
HandleReapplyRules ==
    LET pass == ReapplyPass(getAllTransactions(transactions), getMappings(mappings),
                            ignoredAccounts)
    IN  /\ IF pass.updatedCount > 0
           THEN transactions' = saveTransactions(transactions, pass.txs)
           ELSE UNCHANGED transactions
        /\ lastDeleted' = Undefined
        /\ lastOp' = [op |-> "reapply", updatedCount |-> pass.updatedCount,
                      previous |-> IF lastOp.op = "reapply"
                                   THEN lastOp.updatedCount ELSE NoCount]
        /\ UNCHANGED <<categories, mappings, ignoredAccounts, import_logs, matchVars, flightVars, parseVars>>

\* Settings page: handleAddAccount (an identifier not yet listed)
HandleAddAccount(newAccount) ==
    /\ newAccount # <<>>
    /\ Trim(newAccount) \notin Range(ignoredAccounts)
    /\ ignoredAccounts' = Append(ignoredAccounts, Trim(newAccount))
    /\ lastDeleted' = Undefined
    /\ lastOp' = NoOp
    /\ UNCHANGED <<categories, mappings, transactions, import_logs, matchVars, flightVars, parseVars>>

\* Settings page: handleDeleteAccount
HandleDeleteAccount(acc) ==
    /\ acc \in Range(ignoredAccounts)
    /\ ignoredAccounts' = SelectSeq(ignoredAccounts, LAMBDA a : a # acc)
    /\ lastDeleted' = Undefined
    /\ lastOp' = NoOp
    /\ UNCHANGED <<categories, mappings, transactions, import_logs, matchVars, flightVars, parseVars>>

\* Settings page: handleClearData -> clearAll
HandleClearData ==
    /\ transactions' = {}
    /\ categories' = {}
    /\ mappings' = {}
    /\ import_logs' = 0
    /\ lastDeleted' = Undefined
    /\ lastOp' = NoOp
    /\ UNCHANGED <<ignoredAccounts, matchVars, flightVars, parseVars>>

\* mutant: the handler calls clearAll
HandleClearTransactions_clearsAll ==
    /\ transactions' = {}
    /\ categories' = {}
    /\ mappings' = {}
    /\ import_logs' = 0
    /\ lastDeleted' = Undefined
    /\ lastOp' = [op |-> "clearTransactions", removed |-> Cardinality(transactions)]
    /\ UNCHANGED <<ignoredAccounts, matchVars, flightVars, parseVars>>

\* Settings page: handleClearTransactions -> clearTransactionsOnly; lastOp
\* keeps the number of transactions the clear removed
HandleClearTransactions ==
    /\ transactions' = {}
    /\ import_logs' = 0
    /\ lastDeleted' = Undefined
    /\ lastOp' = [op |-> "clearTransactions", removed |-> Cardinality(transactions)]
    /\ UNCHANGED <<categories, mappings, ignoredAccounts, matchVars, flightVars, parseVars>>

Next ==
    \/ EnsureSystemCategories
    \/ \E id \in UserCats : HandleAddCategory(id)
    \/ \E id \in CatIds : HandleDeleteCategory(id)
    \/ \E key \in MapKeys, pattern \in StorePatterns, categoryId \in RuleCats :
          SaveMapping(key, pattern, categoryId)
    \/ \E key \in MapKeys : HandleDeleteMapping(key)
    \/ \E payload \in RulePayloads : HandleImportRules(payload)
    \/ \E content \in BadContents : HandleImportRulesInvalid(content)
    \/ \E file \in Files : Import(file)
    \/ \E txId \in {1, 2}, catId \in CatIds : HandleCategorize(txId, catId)
    \/ \E txId \in {1, 2}, catId \in CatIds : UpdateCategory(txId, catId)
    \/ HandleReapplyRules
    \/ \E acc \in AccountInputs : HandleAddAccount(acc)
    \/ \E acc \in {Trim(a) : a \in AccountInputs} : HandleDeleteAccount(acc)
    \/ HandleClearData
    \/ HandleClearTransactions

Spec == Init /\ [][Next]_vars

\* ------------------------------------------------------------------------
\* pages/Categories: handleExcelImport
\* ------------------------------------------------------------------------
\* the names of the stored categories: the system categories as
\* ensureSystemCategories writes them, the user category as typed into the
\* form, the migrated categories as their column headers
CategoryName(id) ==
    CASE id = IncomeCat -> "Income"
      [] id = InternalCat -> "Internal / Ignored"
      [] id = "cat-1" -> "Food"
      [] id = "cat-food" -> "Food"
      [] id = "cat-fun" -> "Fun"

\* the category columns of the sheets
ExcelNames == {"Food", "Fun"}
NoName == ""

\* `cat-${h.toLowerCase().replace(/\s+/g, '-')}`
ExcelId(h) ==
    CASE h = "Food" -> "cat-food"
      [] h = "Fun" -> "cat-fun"

ExcelCatIds == {ExcelId(h) : h \in ExcelNames}

\* a data row: columns 4 and 8 and the first category column with a value
\* (NoName when none has one); the purposes hold no 'Pirkums - ... - par'
ExcelRowPool(header) ==
    {[bene |-> b.bene, purpose |-> b.purpose, cat |-> c] :
        b \in {[bene |-> RIMI, purpose |-> <<>>],
                [bene |-> <<>>, purpose |-> LV11],
                [bene |-> <<"a", "B">>, purpose |-> LV11],
                [bene |-> <<>>, purpose |-> <<>>]},
        c \in header \cup {NoName}}

\* a workbook of one sheet: its category columns and its data rows
ExcelSheets ==
    UNION {[header : {h}, rows : UNION {[1..k -> ExcelRowPool(h)] : k \in 0..MaxSheetRows}] :
              h \in {{"Food"}, ExcelNames}}

\* the pattern a row stands for: the beneficiary, else the purpose
RowPattern(row) == IF row.bene # <<>> THEN row.bene ELSE row.purpose

\* the rows that reach patternCounts
CountedRows(sheet) ==
    SelectSeq(sheet.rows, LAMBDA r : r.cat # NoName /\ Len(RowPattern(r)) > 2)

RECURSIVE FirstOccurrences(_)
\* the keys of patternCounts in insertion order
FirstOccurrences(patterns) ==
    IF patterns = <<>> THEN <<>>
    ELSE LET rest == FirstOccurrences(SubSeq(patterns, 1, Len(patterns) - 1))
             last == patterns[Len(patterns)]
         IN  IF last \in Range(rest) THEN rest ELSE Append(rest, last)

\* the category with the highest count for a pattern; of equal counts the
\* one inserted first (count > max)
BestCat(rows, pattern) ==
    LET at(c) == {i \in 1..Len(rows) : RowPattern(rows[i]) = pattern /\ rows[i].cat = c}
        first(c) == CHOOSE i \in at(c) : \A j \in at(c) : i <= j
        cats == {rows[i].cat : i \in {j \in 1..Len(rows) : RowPattern(rows[j]) = pattern}}
    IN  CHOOSE c \in cats :
           \A d \in cats \ {c} :
              \/ Cardinality(at(c)) > Cardinality(at(d))
              \/ Cardinality(at(c)) = Cardinality(at(d)) /\ first(c) < first(d)

\* catObj: the entry of newCategories with that name, else the existing one
CategoryOfName(header, existingCats, name) ==
    IF name \in header THEN ExcelId(name)
    ELSE CHOOSE c \in existingCats : CategoryName(c) = name

\* the loop over newCategories: a category is added unless one of the same
\* name is stored
CategoriesAfterExcel(cats, header) ==
    cats \cup {ExcelId(h) : h \in {n \in header : \A c \in cats : CategoryName(c) # n}}

\* the patterns that get a mapping, in the order of patternCounts
ExcelNewPatterns(sheet, existingMappings) ==
    LET rows == CountedRows(sheet)
    IN  SelectSeq(FirstOccurrences([i \in 1..Len(rows) |-> RowPattern(rows[i])]),
                  LAMBDA q : \A m \in existingMappings : m.pattern # q)

\* Categories page: handleExcelImport of a workbook; keys are the fresh ids
\* map-auto-<now>-<addedCount>
HandleExcelImport(sheet) ==
    LET rows == CountedRows(sheet)
        new == ExcelNewPatterns(sheet, mappings)
        free == MapKeys \ {m.id : m \in mappings}
    IN  /\ categories' = CategoriesAfterExcel(categories, sheet.header)
        /\ \E keys \in [1..Len(new) -> free] :
              /\ \A i, j \in 1..Len(new) : i # j => keys[i] # keys[j]
              /\ mappings' = mappings \cup
                    {[id |-> keys[i], pattern |-> new[i],
                      categoryId |-> CategoryOfName(sheet.header, categories,
                                                    BestCat(rows, new[i]))] :
                        i \in 1..Len(new)}
              /\ lastOp' = [op |-> "excelImport", addedIds |-> Range(keys)]
        /\ lastDeleted' = Undefined
        /\ UNCHANGED <<transactions, ignoredAccounts, import_logs, matchVars, flightVars, parseVars>>

\* the texts typed into the mapping form, the empty ones included
FormPatterns == StorePatterns \cup {<<>>}
FormCats == RuleCats \cup {""}

\* the operations that write categories and mappings
RulesNext ==
    \/ \E id \in UserCats : HandleAddCategory(id)
    \/ \E id \in UserCats \cup ExcelCatIds : HandleDeleteCategory(id)
    \/ \E key \in MapKeys, pattern \in FormPatterns, categoryId \in FormCats :
          SaveMapping(key, pattern, categoryId)
    \/ \E key \in MapKeys : HandleDeleteMapping(key)
    \/ \E payload \in RulePayloads : HandleImportRules(payload)
    \/ \E sheet \in ExcelSheets : HandleExcelImport(sheet)

SpecRules == Init /\ [][RulesNext]_vars

\* ------------------------------------------------------------------------
\* lib/parser: parseBankCSV on the rows Papa.parse delivers
\* ------------------------------------------------------------------------
\* the statements handed to the parser
CsvInputs == UNION {[1..k -> CsvRowPool] : k \in 0..MaxRows}

\* parseBankCSV(fileContent): the promise is created and Papa.parse calls
\* `complete` with the rows (the `error` callback belongs to file and network
\* input and is not called for the string parseBankCSV passes)
ParseCall ==
    /\ parse.state = "idle"
    /\ csv' \in CsvInputs
    /\ parse' = [ParseIdle EXCEPT !.state = "pending"]
    /\ UNCHANGED <<matchVars, storeVars, lastDeleted, lastOp, flightVars>>

\* the forEach callback tabulated over the rows and positions of a statement
ParseOneOf ==
    [row \in CsvRowPool, index \in 0..(MaxRows - 1) |-> ParseOne(row, index)]

\* mutant: the catch block is empty
RecordError_ignored(list, entry) == list

\* errors.push in the catch block
RecordError(list, entry) == Append(list, entry)

\* mutant: the transaction is put in front of the array
PushTransaction_unshift(list, tx) == <<tx>> \o list

\* transactions.push
PushTransaction(list, tx) == Append(list, tx)

RECURSIVE ParseData(_, _)
\* the array `transactions` once the forEach has handled the first k rows
ParseData(rows, k) ==
    IF k = 0 THEN <<>>
    ELSE LET one == ParseOne(rows[k], k - 1)
         IN  IF one.kind = "data"
             THEN PushTransaction(ParseData(rows, k - 1), one.tx)
             ELSE ParseData(rows, k - 1)

\* forEach callback: a row without Value date or Amount returns at once
ParseSkipRow ==
    /\ parse.state = "pending" /\ parse.index < Len(csv)
    /\ ParseOneOf[csv[parse.index + 1], parse.index].kind = "skip"
    /\ parse' = [parse EXCEPT !.index = @ + 1]
    /\ UNCHANGED <<csv, matchVars, storeVars, lastDeleted, lastOp, flightVars>>

\* forEach callback: the date is invalid, the catch block records the row
ParseRowError ==
    /\ parse.state = "pending" /\ parse.index < Len(csv)
    /\ LET one == ParseOneOf[csv[parse.index + 1], parse.index]
       IN  /\ one.kind = "error"
           /\ parse' = [parse EXCEPT !.index = @ + 1,
                                     !.errors = RecordError(@, one.entry)]
    /\ UNCHANGED <<csv, matchVars, storeVars, lastDeleted, lastOp, flightVars>>

\* forEach callback: the row becomes a transaction
ParsePushRow ==
    /\ parse.state = "pending" /\ parse.index < Len(csv)
    /\ LET one == ParseOneOf[csv[parse.index + 1], parse.index]
       IN  /\ one.kind = "data"
           /\ parse' = [parse EXCEPT !.index = @ + 1,
                                     !.transactions = PushTransaction(@, one.tx)]
    /\ UNCHANGED <<csv, matchVars, storeVars, lastDeleted, lastOp, flightVars>>

\* resolve({ data: transactions, errors })
ParseResolve ==
    /\ parse.state = "pending" /\ parse.index = Len(csv)
    /\ parse' = [parse EXCEPT !.state = "resolved"]
    /\ UNCHANGED <<csv, matchVars, storeVars, lastDeleted, lastOp, flightVars>>

\* the steps of `complete`
ParseSteps == ParseSkipRow \/ ParseRowError \/ ParsePushRow \/ ParseResolve

ParseNext == ParseCall \/ ParseSteps

\* `complete` runs the forEach to its end and resolves, without suspending
SpecParse == Init /\ [][ParseNext]_vars /\ WF_vars(ParseSteps)

\* ------------------------------------------------------------------------
\* The verification script: runTest
\* ------------------------------------------------------------------------
mockMapping == [id |-> 1, pattern |-> RIMI, categoryId |-> "cat-1"]

\* JavaScript values with their type
JsObject(fields) == [type |-> "object", value |-> fields]
JsString(s) == [type |-> "string", value |-> s]

\* a === b: strings are compared by content, an object is identical to
\* itself only, and the objects compared here are fresh
StrictEquals(a, b) == a.type = b.type /\ a.type = "string" /\ a.value = b.value

\* runTest after `await parseBankCSV(csv)`: it returns on parse errors, reads
\* result.data[0] (a TypeError when data is empty), calls applyMappings with
\* the one mapping and no third argument, and compares the value with 'cat-1'
RunTest ==
    /\ parse.state = "resolved" /\ lastOp = NoOp
    /\ lastOp' =
          IF Len(parse.errors) > 0 THEN [op |-> "runTest", verdict |-> "parse errors"]
          ELSE IF parse.transactions = <<>> THEN [op |-> "runTest", verdict |-> "TypeError"]
          ELSE LET tx == parse.transactions[1]
                   catId == JsObject(applyMappings(tx, <<mockMapping>>, <<>>))
               IN  [op |-> "runTest", tx |-> tx, catId |-> catId,
                    verdict |-> IF StrictEquals(catId, JsString("cat-1"))
                                THEN "PASSED" ELSE "FAILED"]
    /\ UNCHANGED <<matchVars, storeVars, lastDeleted, flightVars, parseVars>>

TestNext == ParseNext \/ RunTest

SpecTest == Init /\ [][TestNext]_vars

\* ------------------------------------------------------------------------
\* Claims about the stores, over sequences of completed operations
\* ------------------------------------------------------------------------
\* C1: after every completed operation, every stored transaction whose
\* categoryId is set names a category present in the categories store.
C1_TransactionCategoryExists ==
    \A t \in transactions : t.categoryId # Undefined => t.categoryId \in categories

\* C2: after every completed operation, every stored mapping's categoryId
\* names a category present in the categories store.
C2_MappingCategoryExists ==
    \A m \in mappings : m.categoryId \in categories

\* C3: no stored transaction has both a categoryId and a non-empty conflicts.
C3_Exclusive ==
    \A t \in transactions : ~(t.categoryId # Undefined /\ t.conflicts # <<>>)

\* C3 witness: a transaction that carried conflicts at import has been
\* resolved by hand, next to one that was categorized without conflict.
C3_Witness ==
    /\ \E t \in transactions :
          t.type = "C" /\ t.categoryId = "cat-1" /\ t.conflicts = <<>>
    /\ \E m1, m2 \in mappings :
          /\ m1.categoryId # m2.categoryId
          /\ \A t \in transactions : t.type = "C" =>
                MappingMatches(t, m1) /\ MappingMatches(t, m2)
    /\ ignoredAccounts = <<>>
    /\ \E t \in transactions : t.type = "D" /\ t.categoryId # Undefined

\* C4: right after deleteCategory(X), the categories store has no record X,
\* no stored transaction has categoryId X and no stored mapping has categoryId X.
C4_CascadeComplete ==
    lastDeleted # Undefined =>
        /\ lastDeleted \notin categories
        /\ \A t \in transactions : t.categoryId # lastDeleted
        /\ \A m \in mappings : m.categoryId # lastDeleted

\* C4 witness: cat-1 has just been deleted and a Credit transaction is left
\* without category and without conflicts, which only the cascade produces.
C4_Witness ==
    /\ lastDeleted = "cat-1"
    /\ IncomeCat \in categories
    /\ \E t \in transactions :
          t.type = "C" /\ t.categoryId = Undefined /\ t.conflicts = <<>>

\* C10: a stored conflicts set holds at least two distinct category ids and
\* goes with no categoryId, also after a later deleteCategory or manual
\* resolution.
C10_ConflictsWellFormed ==
    \A t \in transactions :
        t.conflicts # <<>> =>
            /\ Len(t.conflicts) >= 2
            /\ Cardinality(Range(t.conflicts)) = Len(t.conflicts)
            /\ t.categoryId = Undefined

\* C10 witness: a category named in a stored conflicts set has just been
\* deleted and the conflicts are still stored.
C10_Witness ==
    /\ lastDeleted # Undefined
    /\ \E t \in transactions : Len(t.conflicts) >= 2 /\ lastDeleted \in Range(t.conflicts)

\* ------------------------------------------------------------------------
\* Claims about categorization at import, by reapply and by hand
\* ------------------------------------------------------------------------
\* no mapping and no ignored account matches the transaction
Unmatched(t, maps, ignored) == applyMappings(t, getMappings(maps), ignored) = NoResult

\* the fallback outcome: IN for a Credit, nothing for a Debit
IsFallback(t) ==
    /\ t.conflicts = <<>>
    /\ t.categoryId = IF t.type = "C" THEN IncomeCat ELSE Undefined

C11_ImportCase ==
    /\ lastOp.op = "import" /\ lastOp.ids = {1, 2}
    /\ \A u \in transactions : Unmatched(u, mappings, ignoredAccounts)

StrictOutcome(r, type) ==
    IF r.match # Undefined THEN [categoryId |-> r.match, conflicts |-> <<>>]
    ELSE IF r.conflicts # <<>> THEN [categoryId |-> Undefined, conflicts |-> r.conflicts]
    ELSE IF type = "C" THEN [categoryId |-> IncomeCat, conflicts |-> <<>>]
    ELSE [categoryId |-> Undefined, conflicts |-> <<>>]

DiffersUnordered(t, u) ==
    t.categoryId # u.categoryId \/ Range(t.conflicts) # Range(u.conflicts)

\* C13: the count reapply rules reports is the number of transactions whose
\* resulting (categoryId, conflicts) differs from the stored one, two conflict
\* sets with the same members in another order counting as equal.
C13_CountIgnoresOrder ==
    [][HandleReapplyRules =>
          lastOp'.updatedCount =
             Cardinality({t \in transactions :
                            \E u \in transactions' :
                               u.id = t.id /\ DiffersUnordered(t, u)})]_vars

\* C14: right after a manual resolution of a transaction with category C
\* (handleCategorize, updateCategory) that transaction is stored with
\* categoryId C and no conflicts, whatever mappings match it, and every other
\* stored transaction is as it was.
C14_ManualResolution ==
    lastOp.op \in {"categorize", "updateCategory"} =>
        /\ \E u \in transactions :
              /\ u.id = lastOp.txId
              /\ u.categoryId = lastOp.catId
              /\ u.conflicts = <<>>
        /\ {t \in transactions : t.id # lastOp.txId} = lastOp.rest

\* C14 witness: a transaction that two mappings with different categories
\* match has just been given, by hand, a category that neither produces,
\* while another transaction is stored.
C14_Witness ==
    /\ lastOp.op = "categorize"
    /\ lastOp.rest # {}
    /\ \E u \in transactions :
          /\ u.id = lastOp.txId
          /\ applyMappings(u, getMappings(mappings), ignoredAccounts).conflicts # <<>>
          /\ \A m \in mappings : m.categoryId # lastOp.catId

\* ------------------------------------------------------------------------
\* Claims about parseBankCSV
\* ------------------------------------------------------------------------
HasDateAndAmount(row) == row.valueDate # <<>> /\ row.amount # <<>>

\* the row has both fields and its date does not parse as dd.MM.yyyy
IsBadDateRow(row) == HasDateAndAmount(row) /\ ~DateFnsParse(row.valueDate).valid

NotBadDateRow(row) == ~IsBadDateRow(row)

\* a transaction without the row position that a synthesized id embeds
WithoutPosition(tx) == [tx EXCEPT !.id = IF @ >= GenBase THEN GenBase ELSE @]

PositionsRemoved(list) == [k \in 1..Len(list) |-> WithoutPosition(list[k])]

\* what the resolved value accounts for: one error per bad-date row, in row
\* order, and the transactions the other rows give when the bad rows are absent
BadDatesAccounted ==
    /\ [k \in 1..Len(parse.errors) |-> parse.errors[k].row]
          = SelectSeq(csv, IsBadDateRow)
    /\ PositionsRemoved(parse.transactions)
          = PositionsRemoved(
               LET rest == SelectSeq(csv, NotBadDateRow)
               IN  ParseData(rest, Len(rest)))

\* C15: each row with date and amount whose date does not parse gives exactly
\* one entry of errors and none of data, the other rows give what they give
\* when the bad rows are absent, and the promise always resolves (the model
\* has no rejected state: the executor holds no reject and no throw outside
\* the try block).
C15_BadDateIsolated ==
    (parse.state = "pending") ~> (parse.state = "resolved" /\ BadDatesAccounted)

\* C15 witness: a statement with a bad-date row between two good rows has
\* been parsed into two transactions and one error.
C15_Witness ==
    /\ parse.state = "resolved"
    /\ Len(csv) = 3
    /\ IsBadDateRow(csv[2]) /\ csv[2].valueDate = Date_2024_02_01
    /\ Len(parse.transactions) = 2 /\ Len(parse.errors) = 1

RowsMissingField == {i \in 1..Len(csv) : ~HasDateAndAmount(csv[i])}

\* C16: a row whose Value date or Amount is missing or empty contributes
\* nothing to data and nothing to errors: no error entry holds such a row, and
\* the number of rows is |data| + |errors| + the number of rows missing date
\* or amount.
C16_MissingFieldsSkipped ==
    parse.state = "resolved" =>
        /\ \A k \in 1..Len(parse.errors) : HasDateAndAmount(parse.errors[k].row)
        /\ Len(csv) = Len(parse.transactions) + Len(parse.errors)
                        + Cardinality(RowsMissingField)

\* C16 witness: a statement with a row without date, a row without amount and
\* a good row has been parsed into one transaction and no error.
C16_Witness ==
    /\ parse.state = "resolved"
    /\ \E i, j \in 1..Len(csv) : csv[i].valueDate = <<>> /\ csv[j].amount = <<>>
    /\ Len(parse.transactions) = 1 /\ parse.errors = <<>>

\* the positions of the rows that yield a transaction
DataRows == {i \in 1..Len(csv) : ParseOneOf[csv[i], i - 1].kind = "data"}

\* the k-th of those positions, counted from the start of the statement
DataRowAt(k) == CHOOSE i \in DataRows : Cardinality({j \in DataRows : j <= i}) = k

\* C17: the transactions returned appear in the relative order of the rows
\* they come from: the k-th transaction of data is the one of the k-th row
\* that yields a transaction.
C17_OrderPreserved ==
    parse.state = "resolved" =>
        /\ Len(parse.transactions) = Cardinality(DataRows)
        /\ \A k \in 1..Len(parse.transactions) :
              parse.transactions[k] = ParseOneOf[csv[DataRowAt(k)], DataRowAt(k) - 1].tx

\* C17 witness: two rows with different transaction numbers, separated by a
\* row that yields none, have been parsed into two transactions.
C17_Witness ==
    /\ parse.state = "resolved"
    /\ Len(csv) = 3 /\ DataRows = {1, 3}
    /\ Len(parse.transactions) = 2
    /\ parse.transactions[1].id # parse.transactions[2].id

\* the text has the shape dd.mm.yyyy: two digits, a dot, two digits, a dot,
\* four digits
HasShapeDdMmYyyy(s) ==
    /\ Len(s) = 10 /\ s[3] = "." /\ s[6] = "."
    /\ IsDigits(SubSeq(s, 1, 2)) /\ IsDigits(SubSeq(s, 4, 5))
    /\ IsDigits(SubSeq(s, 7, 10))

\* the same day, month and year written yyyy-mm-dd
IsoOf(s) == SubSeq(s, 7, 10) \o <<"-">> \o SubSeq(s, 4, 5) \o <<"-">> \o SubSeq(s, 1, 2)

\* the forEach callback has just handled a row with date and amount
HandlesDatedRow ==
    /\ parse.state = "pending" /\ parse.index < Len(csv)
    /\ parse'.index = parse.index + 1
    /\ HasDateAndAmount(csv[parse.index + 1])

\* the row just handled gave one transaction, dated as the row, and no error
GaveTransactionDated(row) ==
    /\ parse'.errors = parse.errors
    /\ Len(parse'.transactions) = Len(parse.transactions) + 1
    /\ \E k \in 1..Len(parse'.transactions) :
          parse'.transactions[k].date = IsoOf(row.valueDate)

\* the row just handled gave one error entry and no transaction
GaveRowError(row) ==
    /\ parse'.transactions = parse.transactions
    /\ Len(parse'.errors) = Len(parse.errors) + 1
    /\ \E k \in 1..Len(parse'.errors) : parse'.errors[k].row = row

\* C18: a valid date dd.mm.yyyy becomes the ISO date yyyy-mm-dd with the same
\* day, month and year, and a date in another shape yields a row error
\* instead of a transaction.
C18_DateNormalized ==
    [][HandlesDatedRow =>
          LET row == csv[parse.index + 1]
          IN  /\ (HasShapeDdMmYyyy(row.valueDate) /\ DateFnsParse(row.valueDate).valid)
                    => GaveTransactionDated(row)
              /\ ~HasShapeDdMmYyyy(row.valueDate) => GaveRowError(row)]_vars

\* ------------------------------------------------------------------------
\* Claims about rule import
\* ------------------------------------------------------------------------
\* the rule has a pattern and a category
IsCompleteRule(rule) == rule.pattern # <<>> /\ rule.categoryId # ""

\* C19: rule import adds one mapping with a fresh id, distinct from every
\* existing id and from the other ids of the same import, for each imported
\* rule (with a pattern and a category) whose pattern is not the pattern of a
\* local mapping, adds nothing for a rule whose pattern exists locally, and
\* neither changes nor removes an existing mapping.
C19_ImportMergesByPattern ==
    [][\A payload \in RulePayloads :
          HandleImportRules(payload) =>
             LET added == mappings' \ mappings
             IN  /\ mappings \subseteq mappings'
                 /\ \A m \in added : \A x \in mappings : m.id # x.id
                 /\ \A m, n \in added : m.id = n.id => m = n
                 /\ \A i \in 1..Len(payload) :
                       (IsCompleteRule(payload[i])
                           /\ \A x \in mappings : x.pattern # payload[i].pattern)
                       => \E m \in added : /\ m.pattern = payload[i].pattern
                                           /\ m.categoryId = payload[i].categoryId
                 /\ \A m \in added : \A x \in mappings' :
                       x.pattern = m.pattern => x = m]_vars

\* C20: when the payload is not valid JSON, or is JSON but not an array, the
\* handler adds no mapping, leaves the mappings store exactly as it was, and
\* notifies the user of the failure.
C20_InvalidPayloadAborts ==
    [][\A content \in BadContents :
          HandleImportRulesInvalid(content) =>
             /\ mappings' = mappings
             /\ lastOp'.op = "importRulesFailed"]_vars

\* C20 witness: the failure has just been reported while mappings are stored.
C20_Witness == lastOp.op = "importRulesFailed" /\ mappings # {}

\* ------------------------------------------------------------------------
\* Claims about the verification script
\* ------------------------------------------------------------------------
\* C21: for a parsed transaction whose purpose contains the pattern of the
\* only mapping, with no ignored identifiers passed, the value applyMappings
\* returns equals that mapping's category id.
C21_ReturnsCategoryId ==
    (lastOp.op = "runTest" /\ lastOp.verdict \in {"PASSED", "FAILED"}
        /\ Includes(ToLower(lastOp.tx.purpose), ToLower(mockMapping.pattern)))
    => StrictEquals(lastOp.catId, JsString(mockMapping.categoryId))

\* ------------------------------------------------------------------------
\* Claims about clearing and deleting
\* ------------------------------------------------------------------------
\* C22: clearTransactionsOnly empties the transactions and import_logs stores
\* and leaves the categories, mappings and settings stores as they were.
C22_ClearTransactionsOnly ==
    [][HandleClearTransactions =>
          /\ transactions' = {} /\ import_logs' = 0
          /\ categories' = categories
          /\ mappings' = mappings
          /\ ignoredAccounts' = ignoredAccounts]_vars

\* C22 witness: the clear has just removed stored transactions while a user
\* category, a mapping and an ignored account are stored.
C22_Witness ==
    /\ lastOp.op = "clearTransactions" /\ lastOp.removed > 0
    /\ transactions = {} /\ import_logs = 0
    /\ categories \cap UserCats # {} /\ mappings # {} /\ ignoredAccounts # <<>>

\* C23: deleteCategory(id) changes only what references id: transactions and
\* mappings of other categories and the other categories are unchanged, and a
\* transaction whose categoryId was id keeps its other fields and ends with
\* no categoryId, neither re-matched nor given the Credit fallback.
C23_DeleteTouchesOnlyReferences ==
    [][\A id \in CatIds :
          HandleDeleteCategory(id) =>
             /\ categories' = categories \ {id}
             /\ mappings' = {m \in mappings : m.categoryId # id}
             /\ \A t \in transactions : t.categoryId # id => t \in transactions'
             /\ \A t \in transactions :
                   t.categoryId = id => [t EXCEPT !.categoryId = Undefined] \in transactions'
             /\ Cardinality(transactions') = Cardinality(transactions)
             /\ ignoredAccounts' = ignoredAccounts /\ import_logs' = import_logs]_vars

\* C23 witness: a category has just been deleted and a Credit that a
\* remaining mapping matches is stored without categoryId and conflicts.
C23_Witness ==
    /\ lastDeleted \in UserCats
    /\ \E t \in transactions :
          /\ t.type = "C" /\ t.categoryId = Undefined /\ t.conflicts = <<>>
          /\ applyMappings(t, getMappings(mappings), ignoredAccounts).match = IncomeCat

\* C25: after deleteCategory(X) completes, no stored transaction lists X in
\* its conflicts.
C25_ConflictsPruned ==
    lastDeleted # Undefined =>
        \A t \in transactions : lastDeleted \notin Range(t.conflicts)

\* C26: handleReapplyRules run a second time, with the same mappings and
\* ignored accounts and no operation in between, reports zero changed
\* transactions and leaves every stored transaction as the first run left it.
C26_ReapplyIdempotent ==
    [][(lastOp.op = "reapply" /\ HandleReapplyRules) =>
          /\ lastOp'.updatedCount = 0
          /\ transactions' = transactions]_vars

\* C26 witness: a run that changed a transaction has been followed at once by
\* a second run.
C26_Witness ==
    /\ lastOp.op = "reapply" /\ lastOp.previous > 0
    /\ transactions # {}

\* the transaction as the parser delivered it: no categoryId, no conflicts
AsParsed(t) == [t EXCEPT !.categoryId = Undefined, !.conflicts = <<>>]

\* C27: for a freshly parsed transaction, the categorization of the import
\* and the strict recompute of the reapply give the same categoryId and the
\* same conflicts under the same mappings and ignored accounts.
C27_ImportAgreesWithReapply ==
    lastOp.op = "import" =>
        \A t \in transactions :
            t.id \in lastOp.ids =>
                LET again == ReapplyOne(AsParsed(t), getMappings(mappings),
                                        ignoredAccounts).tx
                IN  /\ again.categoryId = t.categoryId
                    /\ again.conflicts = t.conflicts

\* C27 witness: an import of two rows has just stored a transaction with
\* conflicts and one that no rule matches.
C27_Witness ==
    /\ lastOp.op = "import"
    /\ \E t, u \in transactions :
          /\ t.id # u.id /\ {t.id, u.id} \subseteq lastOp.ids
          /\ t.conflicts # <<>>
          /\ u.categoryId = Undefined /\ u.conflicts = <<>>

\* ------------------------------------------------------------------------
\* Claims about the Excel migration and the mappings it and the forms store
\* ------------------------------------------------------------------------
\* C28: every mapping the Excel migration creates has a categoryId that names
\* a category of the categories store when the migration completes.
C28_MigratedMappingHasCategory ==
    lastOp.op = "excelImport" =>
        \A m \in mappings : m.id \in lastOp.addedIds => m.categoryId \in categories

\* C29: no operation that adds a mapping (saveMapping from the form and the
\* suggestions, rule import, Excel migration) stores a mapping whose pattern
\* is the empty string or whose categoryId is empty, so no stored mapping
\* matches every transaction through the empty substring.
C29_NoBlankMapping ==
    \A m \in mappings : m.pattern # <<>> /\ m.categoryId # ""

\* C29 witness: a workbook has just added a mapping to one stored before.
C29_Witness ==
    /\ lastOp.op = "excelImport" /\ lastOp.addedIds # {}
    /\ \E m \in mappings : m.id \notin lastOp.addedIds

\* ------------------------------------------------------------------------
\* Operations interleaved at their awaits
\* ------------------------------------------------------------------------
\* ids whose deleteCategory committed while the given operation was in flight
NoteDeleted(op, id) ==
    IF op.pc = "idle" THEN op ELSE [op EXCEPT !.deleted = @ \cup {id}]

\* deleteCategory: db.transaction([...], 'readwrite'); the transaction works on
\* its own view of the three stores and holds them until it ends
DeleteBegin(id) ==
    /\ delTxn = NoTxn
    /\ id \in categories
    /\ delTxn' = [pc |-> "category", id |-> id, cats |-> categories,
                  txs |-> transactions, maps |-> mappings]
    /\ lastDeleted' = Undefined
    /\ lastOp' = NoOp
    /\ UNCHANGED <<storeVars, matchVars, result, reapply, parseVars>>

\* deleteCategory: tx.objectStore('categories').delete(id)
DeleteStepCategory ==
    /\ delTxn.pc = "category"
    /\ delTxn' = [delTxn EXCEPT !.pc = "transactions",
                                !.cats = DeleteCategoryRecord(@, delTxn.id)]
    /\ UNCHANGED <<storeVars, matchVars, lastDeleted, lastOp, result, reapply, parseVars>>

\* deleteCategory: the cursor loop over index 'by-category'
DeleteStepTransactions ==
    /\ delTxn.pc = "transactions"
    /\ delTxn' = [delTxn EXCEPT !.pc = "mappings",
                                !.txs = UnsetCategoryOfTransactions(@, delTxn.id)]
    /\ UNCHANGED <<storeVars, matchVars, lastDeleted, lastOp, result, reapply, parseVars>>

\* deleteCategory: the cursor loop over the mappings store
DeleteStepMappings ==
    /\ delTxn.pc = "mappings"
    /\ delTxn' = [delTxn EXCEPT !.pc = "done",
                                !.maps = DeleteMappingsOfCategory(@, delTxn.id)]
    /\ UNCHANGED <<storeVars, matchVars, lastDeleted, lastOp, result, reapply, parseVars>>

\* deleteCategory: await tx.done resolves, the transaction commits
DeleteCommit ==
    /\ delTxn.pc = "done"
    /\ categories' = delTxn.cats
    /\ transactions' = delTxn.txs
    /\ mappings' = delTxn.maps
    /\ lastDeleted' = delTxn.id
    /\ lastOp' = NoOp
    /\ result' = NoteDeleted(result, delTxn.id)
    /\ reapply' = NoteDeleted(reapply, delTxn.id)
    /\ delTxn' = NoTxn
    /\ UNCHANGED <<ignoredAccounts, import_logs, matchVars, parseVars>>

\* mutant: the writes were not made in one transaction, nothing is reverted
AbortedStore_noRollback(committed, working) == working

\* what a store holds after the transaction aborted: IndexedDB reverts it
AbortedStore(committed, working) == committed

\* deleteCategory: a request fails, the transaction aborts, the call rejects
DeleteAbort ==
    /\ delTxn.pc \in {"category", "transactions", "mappings", "done"}
    /\ categories' = AbortedStore(categories, delTxn.cats)
    /\ transactions' = AbortedStore(transactions, delTxn.txs)
    /\ mappings' = AbortedStore(mappings, delTxn.maps)
    /\ lastDeleted' = Undefined
    /\ lastOp' = NoOp
    /\ delTxn' = NoTxn
    /\ UNCHANGED <<ignoredAccounts, import_logs, matchVars, result, reapply, parseVars>>

\* Import page: handleFileSelect
HandleFileSelect(file) ==
    /\ delTxn = NoTxn
    /\ result = NoPreview
    /\ result' = [pc |-> "preview", deleted |-> {},
                  data |-> ImportPreview(file, getMappings(mappings), ignoredAccounts)]
    /\ lastDeleted' = Undefined
    /\ lastOp' = NoOp
    /\ UNCHANGED <<storeVars, matchVars, reapply, delTxn, parseVars>>

\* Import page: handleSave
HandleSave ==
    /\ delTxn = NoTxn
    /\ result.pc = "preview"
    /\ import_logs < MaxLogs
    /\ transactions' = saveTransactions(transactions, result.data)
    /\ import_logs' = import_logs + 1
    /\ result' = NoPreview
    /\ lastDeleted' = Undefined
    /\ lastOp' = [op |-> "import", ids |-> {result.data[i].id : i \in 1..Len(result.data)}]
    /\ UNCHANGED <<categories, mappings, ignoredAccounts, matchVars, reapply, delTxn, parseVars>>

\* Import page: clear (Cancel)
HandleCancel ==
    /\ result.pc = "preview"
    /\ result' = NoPreview
    /\ lastDeleted' = Undefined
    /\ lastOp' = NoOp
    /\ UNCHANGED <<storeVars, matchVars, reapply, delTxn, parseVars>>

\* handleReapplyRules: await getAllTransactions()
ReapplyReadTransactions ==
    /\ delTxn = NoTxn
    /\ reapply = ReapplyIdle
    /\ reapply' = [pc |-> "rules", deleted |-> {},
                   txs |-> getAllTransactions(transactions), updatedCount |-> 0]
    /\ lastDeleted' = Undefined
    /\ lastOp' = NoOp
    /\ UNCHANGED <<storeVars, matchVars, result, delTxn, parseVars>>

\* handleReapplyRules: await getMappings(), getIgnoredAccounts(), txs.forEach
ReapplyReadRules ==
    /\ delTxn = NoTxn
    /\ reapply.pc = "rules"
    /\ LET pass == ReapplyPass(reapply.txs, getMappings(mappings), ignoredAccounts)
       IN  reapply' = [reapply EXCEPT !.pc = "save", !.txs = pass.txs,
                                      !.updatedCount = pass.updatedCount]
    /\ lastDeleted' = Undefined
    /\ lastOp' = NoOp
    /\ UNCHANGED <<storeVars, matchVars, result, delTxn, parseVars>>

\* handleReapplyRules: saveTransactions(txs) when something changed
ReapplySave ==
    /\ delTxn = NoTxn
    /\ reapply.pc = "save"
    /\ IF reapply.updatedCount > 0
       THEN transactions' = saveTransactions(transactions, reapply.txs)
       ELSE UNCHANGED transactions
    /\ reapply' = ReapplyIdle
    /\ lastDeleted' = Undefined
    /\ lastOp' = [op |-> "reapply", updatedCount |-> reapply.updatedCount]
    /\ UNCHANGED <<categories, mappings, ignoredAccounts, import_logs, matchVars,
                   result, delTxn, parseVars>>

ConcNext ==
    \/ \E id \in UserCats : DeleteBegin(id)
    \/ DeleteStepCategory
    \/ DeleteStepTransactions
    \/ DeleteStepMappings
    \/ DeleteCommit
    \/ DeleteAbort
    \/ \E file \in Files : HandleFileSelect(file)
    \/ HandleSave
    \/ HandleCancel
    \/ ReapplyReadTransactions
    \/ ReapplyReadRules
    \/ ReapplySave
    \/ \E id \in UserCats : delTxn = NoTxn /\ HandleAddCategory(id)
    \/ \E key \in MapKeys, pattern \in StorePatterns, categoryId \in UserCats :
          delTxn = NoTxn /\ SaveMapping(key, pattern, categoryId)

SpecConc == Init /\ [][ConcNext]_vars

\* ------------------------------------------------------------------------
\* Claims about interleaved operations
\* ------------------------------------------------------------------------
\* C5: deleteCategory is all-or-nothing: while it is in flight, and when it
\* ends by commit or by failure, the three stores show either none of its
\* effects or all of them.
C5_AllOrNothing ==
    [][delTxn.pc # "idle" =>
          \/ UNCHANGED <<categories, transactions, mappings, parseVars>>
          \/ /\ delTxn'.pc = "idle"
             /\ delTxn.id \notin categories'
             /\ \A t \in transactions' : t.categoryId # delTxn.id
             /\ \A m \in mappings' : m.categoryId # delTxn.id
             /\ \A t \in transactions : \E u \in transactions' : u.id = t.id]_vars

\* C5 witness: the category record is removed inside the transaction, the
\* mappings step has not run, and the stores still show the category and a
\* mapping and a transaction that refer to it.
C5_Witness ==
    /\ delTxn.pc = "mappings"
    /\ delTxn.id \notin delTxn.cats
    /\ delTxn.id \in categories
    /\ \E m \in mappings : m.categoryId = delTxn.id
    /\ \E t \in transactions : t.categoryId = delTxn.id

\* C6: when deleteCategory(X) completed while a reapply pass was between its
\* reads and its save, or while an import preview waited for handleSave, no
\* stored transaction has categoryId X once that operation has completed too.
C6_DeletedStaysUnreferenced ==
    [][/\ (reapply.pc = "save" /\ reapply'.pc = "idle") =>
              \A t \in transactions' : t.categoryId \notin reapply.deleted
       /\ (result.pc = "preview" /\ result'.pc = "idle" /\ import_logs' # import_logs) =>
              \A t \in transactions' : t.categoryId \notin result.deleted]_vars

====
